---- MODULE Spec2Model ----
(***************************************************************************)
(* pykube/objects.py: a resource instance (APIObject and its subclasses)   *)
(* holding a caller-mutable document `obj` and a deep-copied snapshot      *)
(* `_original_obj`, the CRUD operations that talk to the api collaborator, *)
(* and the scale / execute helpers built on them.                          *)
(*                                                                         *)
(* Python dicts are modelled as TLA+ records whose DOMAIN is the set of    *)
(* keys present.  The api collaborator and time.sleep are observed through *)
(* the log `calls`; the remote system answers every request with a         *)
(* nondeterministically chosen status and body.                            *)
(***************************************************************************)
EXTENDS Integers, Sequences, FiniteSets, TLC

\* ------------------------------------------------------------------ bounds
MaxReplicas == 2          \* scalar counts range over 0..MaxReplicas
MaxReloads == 2           \* reloads followed inside one scale() call

\* ------------------------------------------------------- program constants
DEFAULT_NAMESPACE == "default"
JSON_PATCH_CONTENT_TYPE == "application/json-patch+json"

\* ------------------------------------------------------- resource classes
\* One row per class of objects.py: its class attributes, whether it derives
\* from NamespacedAPIObject / ReplicatedAPIObject, and the helper methods
\* the class defines.
Descriptor(v, e, ns, rep, meths) ==
    [version |-> v, endpoint |-> e, namespaced |-> ns, replicated |-> rep,
     methods |-> meths]

classes ==
    [ConfigMap |-> Descriptor("v1", "configmaps", TRUE, FALSE, {}),
     DaemonSet |-> Descriptor("extensions/v1beta1", "daemonsets", TRUE, FALSE, {}),
     Deployment |-> Descriptor("extensions/v1beta1", "deployments", TRUE, TRUE, {}),
     Endpoint |-> Descriptor("v1", "endpoints", TRUE, FALSE, {}),
     Ingress |-> Descriptor("extensions/v1beta1", "ingresses", TRUE, FALSE, {}),
     Job |-> Descriptor("batch/v1", "jobs", TRUE, FALSE, {"scale"}),
     Namespace |-> Descriptor("v1", "namespaces", FALSE, FALSE, {}),
     Node |-> Descriptor("v1", "nodes", FALSE, FALSE, {}),
     Pod |-> Descriptor("v1", "pods", TRUE, FALSE, {"execute"}),
     ReplicationController |->
         Descriptor("v1", "replicationcontrollers", TRUE, TRUE, {"scale"}),
     ReplicaSet |-> Descriptor("extensions/v1beta1", "replicasets", TRUE, TRUE, {}),
     Secret |-> Descriptor("v1", "secrets", TRUE, FALSE, {}),
     Service |-> Descriptor("v1", "services", TRUE, FALSE, {}),
     PersistentVolume |-> Descriptor("v1", "persistentvolumes", FALSE, FALSE, {}),
     PersistentVolumeClaim |->
         Descriptor("v1", "persistentvolumeclaims", TRUE, FALSE, {})]

\* The classes instantiated by the model: one per distinct behaviour
\* (scale on a replicated class, a replicated class without scale, Job's
\* scale, execute, and a class that is not namespaced).
ModelledKinds == {"ReplicationController", "Deployment", "Job", "Pod", "Node"}

\* ---------------------------------------------------------- value domains
Names == {"n1", "n2"}
Namespaces == {"", "ns1"}
Counts == 0..MaxReplicas
StatusCodes == {200, 201, 404, 500}

\* ------------------------------------------------------------- documents
Metadatas ==
    [name : Names] \cup [name : Names, namespace : Namespaces]

Specs(k) ==
    IF classes[k].replicated THEN [replicas : Counts]
    ELSE IF k = "Job" THEN [parallelism : Counts, completions : {1}]
    ELSE {[nodeName |-> "node1"]}

Documents(k) == [metadata : Metadatas, spec : Specs(k)]

\* dict membership and item assignment / deletion on a two-level document
Has(o, sec, key) == sec \in DOMAIN o /\ key \in DOMAIN o[sec]

SetItem(o, sec, key, v) ==
    [o EXCEPT ![sec] =
        [kk \in (DOMAIN o[sec]) \cup {key} |-> IF kk = key THEN v ELSE o[sec][kk]]]

DelItem(o, sec, key) ==
    [o EXCEPT ![sec] = [kk \in (DOMAIN o[sec]) \ {key} |-> o[sec][kk]]]

\* Python values handed to execute(): their type and what str() gives.
PyNone == [type |-> "NoneType", repr |-> "None"]
PyTrue == [type |-> "bool", repr |-> "True"]
PyFalse == [type |-> "bool", repr |-> "False"]
PyStr(s) == [type |-> "str", repr |-> s]
Flags == {PyNone, PyTrue, PyFalse}
Commands == {PyStr("ls")}
Containers == {PyNone, PyStr("c1")}

str(v) == v.repr

lower(s) ==
    CASE s = "True" -> "true"
      [] s = "False" -> "false"
      [] s = "None" -> "none"
      [] OTHER -> s

\* urlencode(query_params): each value goes through str(); the result is
\* kept as the ordered key=value pairs of the query string.
urlencode(query_params) ==
    [i \in 1..Len(query_params) |->
        <<query_params[i][1], str(query_params[i][2])>>]

\* ------------------------------------------------------------- accessors
name(o) == o["metadata"]["name"]

namespace_no_default(o) ==
    IF Has(o, "metadata", "namespace") THEN o["metadata"]["namespace"]
    ELSE DEFAULT_NAMESPACE

\* APIObject.namespace is the class attribute None (modelled as no value);
\* NamespacedAPIObject.namespace reads the document.
namespace_of_namespaced(o) ==
    IF Has(o, "metadata", "namespace") /\ o["metadata"]["namespace"] # ""
    THEN o["metadata"]["namespace"]
    ELSE DEFAULT_NAMESPACE

replicas(o) == o["spec"]["replicas"]

set_replicas(o, value) == SetItem(o, "spec", "replicas", value)

\* ------------------------------------------------------------ api_kwargs
\* An instance: self.obj, self._original_obj, and whether the two are one
\* and the same dict object (they are not after copy.deepcopy).
Instance(o, orig, sh) == [obj |-> o, original_obj |-> orig, shared |-> sh]

NoArgs == <<>>

BuildKwargs(k, self, nm, kwargs) ==
    LET collection ==
            IF "collection" \in DOMAIN kwargs THEN kwargs["collection"] ELSE FALSE
        path0 == IF collection THEN <<classes[k].endpoint>>
                 ELSE <<classes[k].endpoint, nm>>
        path1 == IF "subcommand" \in DOMAIN kwargs
                 THEN Append(path0, kwargs["subcommand"]) ELSE path0
        query == IF "query_params" \in DOMAIN kwargs /\ kwargs["query_params"] # <<>>
                 THEN urlencode(kwargs["query_params"]) ELSE <<>>
        rest == (DOMAIN kwargs) \ {"collection", "subcommand", "query_params"}
        keys == {"url", "version"}
                \cup (IF classes[k].namespaced THEN {"namespace"} ELSE {})
                \cup rest
    IN  [key \in keys |->
            IF key \in rest THEN kwargs[key]
            ELSE IF key = "url" THEN [path |-> path1, query |-> query]
            ELSE IF key = "version" THEN classes[k].version
            ELSE namespace_of_namespaced(self.obj)]

api_kwargs_obj_name(k, self, kwargs) ==
    BuildKwargs(k, self, self.obj["metadata"]["name"], kwargs)

\* k: the class, self: the instance, kwargs: the keyword arguments.  The
\* url is kept as its path segments plus its query pairs.
api_kwargs(k, self, kwargs) ==
    BuildKwargs(k, self, self.original_obj["metadata"]["name"], kwargs)

\* ------------------------------------------------------------ json patch
\* jsonpatch.make_patch on two-level documents.  At each level the library
\* walks Python sets of keys: the removed keys, then the added keys, then
\* the keys held by both, recursing into these.  The order in which a set
\* of strings is walked depends on the process's string hashes, so it is
\* an input of the diff: `walk` gives, for the top level and for each
\* section, the order in which the keys come out of a set.
Sections == {"metadata", "spec"}

Pointer(p) == "/" \o p[1] \o "/" \o p[2]

\* The orders in which a set can be walked.
Orders(S) ==
    {q \in [1..Cardinality(S) -> S] :
        \A i, j \in 1..Cardinality(S) : i # j => q[i] # q[j]}

KeysOf(src, dst, sec) == DOMAIN src[sec] \cup DOMAIN dst[sec]

Walks(src, dst) ==
    [top : Orders(Sections),
     metadata : Orders(KeysOf(src, dst, "metadata")),
     spec : Orders(KeysOf(src, dst, "spec"))]

\* _compare_dicts on the dicts src[sec] and dst[sec]
compare_dicts(src, dst, sec, walk) ==
    LET removed == SelectSeq(walk[sec],
                       LAMBDA key : Has(src, sec, key) /\ ~Has(dst, sec, key))
        added == SelectSeq(walk[sec],
                       LAMBDA key : ~Has(src, sec, key) /\ Has(dst, sec, key))
        changed == SelectSeq(walk[sec],
                       LAMBDA key : /\ Has(src, sec, key) /\ Has(dst, sec, key)
                                    /\ src[sec][key] # dst[sec][key])
    IN  [i \in 1..Len(removed) |->
            [op |-> "remove", path |-> Pointer(<<sec, removed[i]>>)]]
        \o [i \in 1..Len(added) |->
               [op |-> "add", path |-> Pointer(<<sec, added[i]>>),
                value |-> dst[sec][added[i]]]]
        \o [i \in 1..Len(changed) |->
               [op |-> "replace", path |-> Pointer(<<sec, changed[i]>>),
                value |-> dst[sec][changed[i]]]]

make_patch(src, dst, walk) ==
    compare_dicts(src, dst, walk.top[1], walk)
    \o compare_dicts(src, dst, walk.top[2], walk)

\* What a server that honours the patch does with it (RFC 6902 apply).
Locate(pointer) ==
    CHOOSE p \in Sections \X {"name", "namespace", "replicas", "parallelism",
                              "completions", "nodeName"} : Pointer(p) = pointer

RECURSIVE apply_patch(_, _)
apply_patch(doc, patch) ==
    IF patch = <<>> THEN doc
    ELSE LET o == Head(patch)
             p == Locate(o.path)
             next == IF o.op = "remove" THEN DelItem(doc, p[1], p[2])
                     ELSE SetItem(doc, p[1], p[2], o.value)
         IN  apply_patch(next, Tail(patch))

\* ------------------------------------------------- the api collaborator
\* A response is its status code and its JSON body.  Bodies matter only
\* for successful answers; a failure carries a Status payload.
StatusBody == [kind |-> "Status"]

\* The success flag of a response and the api's raise_for_status, which
\* raises exactly on the statuses that are not a success.
ok(r) == r.status_code < 400

raise_for_status(r) == ~ok(r)

\* What the remote system may answer when its state for the addressed
\* object is `base`: any status and, on success, base itself or base with
\* the count it reports still different from the one stored.
ServerViews(base) ==
    {base}
    \cup (IF Has(base, "spec", "replicas")
          THEN {SetItem(base, "spec", "replicas", c) : c \in Counts} ELSE {})
    \cup (IF Has(base, "spec", "parallelism")
          THEN {SetItem(base, "spec", "parallelism", c) : c \in Counts} ELSE {})

Responses(bodies) ==
    {[status_code |-> s, body |-> b] : s \in {sc \in StatusCodes : sc < 400}, b \in bodies}
    \cup {[status_code |-> s, body |-> StatusBody] : s \in {sc \in StatusCodes : sc >= 400}}

Call(fn, kw) == [fn |-> fn, kw |-> kw]

\* ------------------------------------------------------- CRUD operations
\* Each operation is a function of the class k, the instance self, its
\* arguments and the response r it receives; it yields the request issued,
\* how the call ends (the value returned or the exception raised) and the
\* instance afterwards.
set_obj_no_copy(self, o) == Instance(o, o, TRUE)

set_obj_keep_snapshot(self, o) == Instance(o, self.original_obj, FALSE)

set_obj(self, o) == Instance(o, o, FALSE)

Outcome(call, result, self) == [call |-> call, result |-> result, self |-> self]

exists(k, self, ensure, r) ==
    LET call == Call("get", api_kwargs(k, self, NoArgs))
    IN  IF r.status_code \notin {200, 404} /\ raise_for_status(r)
        THEN Outcome(call, "HTTPError", self)
        ELSE IF ~ok(r)
        THEN IF ensure THEN Outcome(call, "ObjectDoesNotExist", self)
             ELSE Outcome(call, "False", self)
        ELSE Outcome(call, "True", self)

create_singular(k, self, r) ==
    LET call == Call("post", api_kwargs(k, self, [data |-> [json |-> self.obj]]))
    IN  IF raise_for_status(r) THEN Outcome(call, "HTTPError", self)
        ELSE Outcome(call, "None", set_obj(self, r.body))

create(k, self, r) ==
    LET call == Call("post", api_kwargs(k, self,
                        [data |-> [json |-> self.obj], collection |-> TRUE]))
    IN  IF raise_for_status(r) THEN Outcome(call, "HTTPError", self)
        ELSE Outcome(call, "None", set_obj(self, r.body))

reload(k, self, r) ==
    LET call == Call("get", api_kwargs(k, self, NoArgs))
    IN  IF raise_for_status(r) THEN Outcome(call, "HTTPError", self)
        ELSE Outcome(call, "None", set_obj(self, r.body))

update_unchecked(k, self, walk, r) ==
    LET patch == make_patch(self.original_obj, self.obj, walk)
        call == Call("patch", api_kwargs(k, self,
                        [headers |-> [ContentType |-> JSON_PATCH_CONTENT_TYPE],
                         data |-> [patch |-> patch]]))
    IN  Outcome(call, IF raise_for_status(r) THEN "HTTPError" ELSE "None",
                set_obj(self, r.body))

update_reversed(k, self, walk, r) ==
    LET patch == make_patch(self.obj, self.original_obj, walk)
        call == Call("patch", api_kwargs(k, self,
                        [headers |-> [ContentType |-> JSON_PATCH_CONTENT_TYPE],
                         data |-> [patch |-> patch]]))
    IN  IF raise_for_status(r) THEN Outcome(call, "HTTPError", self)
        ELSE Outcome(call, "None", set_obj(self, r.body))

update_merge_patch(k, self, walk, r) ==
    LET patch == make_patch(self.original_obj, self.obj, walk)
        call == Call("patch", api_kwargs(k, self,
                        [headers |-> [ContentType |-> "application/merge-patch+json"],
                         data |-> [patch |-> patch]]))
    IN  IF raise_for_status(r) THEN Outcome(call, "HTTPError", self)
        ELSE Outcome(call, "None", set_obj(self, r.body))

\* update(); `walk` is the order in which this run's sets come out.
update(k, self, walk, r) ==
    LET patch == make_patch(self.original_obj, self.obj, walk)
        call == Call("patch", api_kwargs(k, self,
                        [headers |-> [ContentType |-> JSON_PATCH_CONTENT_TYPE],
                         data |-> [patch |-> patch]]))
    IN  IF raise_for_status(r) THEN Outcome(call, "HTTPError", self)
        ELSE Outcome(call, "None", set_obj(self, r.body))

delete_forgets(k, self, r) ==
    LET call == Call("delete", api_kwargs(k, self, NoArgs))
    IN  IF r.status_code # 404 /\ raise_for_status(r)
        THEN Outcome(call, "HTTPError", self)
        ELSE Outcome(call, "None", set_obj(self, r.body))

delete_strict(k, self, r) ==
    LET call == Call("delete", api_kwargs(k, self, NoArgs))
    IN  IF raise_for_status(r) THEN Outcome(call, "HTTPError", self)
        ELSE Outcome(call, "None", self)

delete(k, self, r) ==
    LET call == Call("delete", api_kwargs(k, self, NoArgs))
    IN  IF r.status_code # 404 /\ raise_for_status(r)
        THEN Outcome(call, "HTTPError", self)
        ELSE Outcome(call, "None", self)

\* Pod.execute: the query parameters in the order they are inserted.
execute_params(command, stdin, stdout, stderr, tty, container) ==
    << <<"command", PyStr(str(command))>> >>
    \o (IF stdin # PyNone THEN << <<"stdin", PyStr(lower(str(stdin)))>> >> ELSE <<>>)
    \o (IF stdout # PyNone THEN << <<"stdout", PyStr(lower(str(stdout)))>> >> ELSE <<>>)
    \o (IF stderr # PyNone THEN << <<"stderr", PyStr(lower(str(stderr)))>> >> ELSE <<>>)
    \o (IF tty # PyNone THEN << <<"tty", tty>> >> ELSE <<>>)
    \o (IF container # PyNone THEN << <<"container", container>> >> ELSE <<>>)

execute(k, self, command, stdin, stdout, stderr, tty, container, r) ==
    LET params == execute_params(command, stdin, stdout, stderr, tty, container)
        call == Call("get", api_kwargs(k, self,
                        [subcommand |-> "exec", query_params |-> params]))
    IN  IF raise_for_status(r) THEN Outcome(call, "HTTPError", self)
        ELSE Outcome(call, "text", self)

\* --------------------------------------------------------------- scale
\* ReplicationController.scale and Job.scale, cut at their collaborator
\* calls: the existence check, the update, each reload and each sleep.
\* `arg` is the optional argument: <<>> for None, <<n>> for n.
NoneArg == <<>>
ScaleArgs == {NoneArg} \cup {<<c>> : c \in Counts}

\* An in-place write into the dict self.obj.
Write(self, o) == Instance(o, IF self.shared THEN o ELSE self.original_obj, self.shared)

scale_target(k, self, arg) ==
    IF arg # NoneArg THEN arg[1]
    ELSE IF k = "Job" THEN self.obj["spec"]["parallelism"]
    ELSE replicas(self.obj)

scale_assign(k, self, value) ==
    IF k = "Job" THEN Write(self, SetItem(self.obj, "spec", "parallelism", value))
    ELSE Write(self, set_replicas(self.obj, value))

scale_test_no_wait(k, self, value) ==
    IF k = "Job" THEN "AttributeError" ELSE "break"

\* The test made after each reload: "break", "sleep", or the exception
\* raised by evaluating it.
scale_test(k, self, value) ==
    IF k = "Job" THEN "AttributeError"
    ELSE IF replicas(self.obj) = value THEN "break"
    ELSE "sleep"

SLEEP_SECONDS == 1

Step(call, result, self, next) ==
    [call |-> call, result |-> result, self |-> self, next |-> next]

scale_enter_assign_first(k, self, arg, r) ==
    LET value == scale_target(k, self, arg)
        e == exists(k, scale_assign(k, self, value), TRUE, r)
    IN  IF e.result \in {"HTTPError", "ObjectDoesNotExist"}
        THEN Step(e.call, e.result, e.self, "ended")
        ELSE Step(e.call, "running", e.self, "scale_update")

scale_enter_discard_pending(k, self, arg, r) ==
    LET value == scale_target(k, self, arg)
        e == exists(k, self, TRUE, r)
        clean == Instance(e.self.original_obj, e.self.original_obj, e.self.shared)
    IN  IF e.result \in {"HTTPError", "ObjectDoesNotExist"}
        THEN Step(e.call, e.result, e.self, "ended")
        ELSE Step(e.call, "running", scale_assign(k, clean, value), "scale_update")

\* From the call to the first request answered: the target is fixed,
\* exists(ensure=True) is called, the target is written into the document.
scale_enter(k, self, arg, r) ==
    LET value == scale_target(k, self, arg)
        e == exists(k, self, TRUE, r)
    IN  IF e.result \in {"HTTPError", "ObjectDoesNotExist"}
        THEN Step(e.call, e.result, e.self, "ended")
        ELSE Step(e.call, "running", scale_assign(k, e.self, value), "scale_update")

scale_update(k, self, walk, r) ==
    LET u == update(k, self, walk, r)
    IN  IF u.result = "HTTPError" THEN Step(u.call, u.result, u.self, "ended")
        ELSE Step(u.call, "running", u.self, "scale_reload")

scale_reload_retry(k, self, value, r) ==
    LET l == reload(k, self, r)
        test == scale_test(k, l.self, value)
    IN  IF l.result = "HTTPError" THEN Step(l.call, "running", l.self, "scale_sleep")
        ELSE IF test = "break" THEN Step(l.call, "None", l.self, "ended")
        ELSE IF test = "sleep" THEN Step(l.call, "running", l.self, "scale_sleep")
        ELSE Step(l.call, test, l.self, "ended")

\* One turn of the loop up to the sleep: reload, then the test.
scale_reload(k, self, value, r) ==
    LET l == reload(k, self, r)
        test == scale_test(k, l.self, value)
    IN  IF l.result = "HTTPError" THEN Step(l.call, l.result, l.self, "ended")
        ELSE IF test = "break" THEN Step(l.call, "None", l.self, "ended")
        ELSE IF test = "sleep" THEN Step(l.call, "running", l.self, "scale_sleep")
        ELSE Step(l.call, test, l.self, "ended")

scale_sleep == Call("sleep", [seconds |-> SLEEP_SECONDS])

\* ---------------------------------------------------------------- state
VARIABLES
    kind,           \* the class of the instance
    obj,            \* self.obj, the document
    original_obj,   \* self._original_obj, the snapshot
    shared,         \* whether obj and _original_obj are the same dict object
    pc,             \* "idle" between operations, the next step of the
                    \* scale() in progress, "ended" when an operation has
                    \* returned or raised
    scale_value,    \* scale's local variable replicas / parallelism
    calls,          \* api and time.sleep calls of the operation in progress
                    \* or just ended
    response,       \* the last response received by that operation
    result,         \* how it ended: the value returned or the exception
                    \* raised; "running" while in progress, "none" before
    op,             \* the operation and its arguments
    entry,          \* the instance when the operation was called, or as
                    \* the caller has written it since
    baseline        \* the document last handed to set_obj: by the
                    \* constructor, by a successful create, reload or
                    \* update, or by the caller

vars == <<kind, obj, original_obj, shared, pc, scale_value, calls, response,
          result, op, entry, baseline>>

Self == Instance(obj, original_obj, shared)

NoResponse == [status_code |-> 0, body |-> StatusBody]
NoOp == [name |-> "none"]

Exceptions == {"HTTPError", "ObjectDoesNotExist", "AttributeError"}

\* APIObject.__init__: set_obj(obj) on the document handed in.
Init ==
    /\ kind \in ModelledKinds
    /\ \E o \in Documents(kind) :
          /\ obj = set_obj(Instance(o, o, FALSE), o).obj
          /\ original_obj = set_obj(Instance(o, o, FALSE), o).original_obj
          /\ shared = set_obj(Instance(o, o, FALSE), o).shared
          /\ entry = set_obj(Instance(o, o, FALSE), o)
          /\ baseline = o
    /\ pc = "idle"
    /\ scale_value = 0
    /\ calls = <<>>
    /\ response = NoResponse
    /\ result = "none"
    /\ op = NoOp

\* History: a create, reload or update request (isReplacing) answered with
\* a success status hands its body to set_obj.
Installs(isReplacing, r) ==
    IF isReplacing /\ r.status_code < 400 THEN r.body ELSE baseline

\* The instance becomes `self`.
Becomes(self) ==
    /\ obj' = self.obj
    /\ original_obj' = self.original_obj
    /\ shared' = self.shared

\* ------------------------------------------------- the caller's steps
\* Between operations the caller writes into the document.
CallerWrites(o) ==
    /\ pc = "idle"
    /\ o # obj
    /\ Becomes(Write(Self, o))
    /\ entry' = Write(Self, o)
    /\ UNCHANGED <<kind, pc, scale_value, calls, response, result, op, baseline>>

\* Between operations the caller calls the public method set_obj(o).
SetObj ==
    /\ pc = "idle"
    /\ \E o \in Documents(kind) :
          /\ Becomes(set_obj(Self, o))
          /\ entry' = set_obj(Self, o)
          /\ baseline' = o
    /\ UNCHANGED <<kind, pc, scale_value, calls, response, result, op>>

\* The caller has seen how the operation ended and goes on; the record of
\* the operation is dropped.
CallerProceeds ==
    /\ pc = "ended"
    /\ pc' = "idle"
    /\ calls' = <<>>
    /\ response' = NoResponse
    /\ result' = "none"
    /\ op' = NoOp
    /\ entry' = Self
    /\ scale_value' = 0
    /\ UNCHANGED <<kind, obj, original_obj, shared, baseline>>

WriteName == \E n \in Names : CallerWrites(SetItem(obj, "metadata", "name", n))

WriteNamespace ==
    \E ns \in Namespaces : CallerWrites(SetItem(obj, "metadata", "namespace", ns))

DeleteNamespace ==
    /\ Has(obj, "metadata", "namespace")
    /\ CallerWrites(DelItem(obj, "metadata", "namespace"))

\* ReplicatedAPIObject.replicas setter
WriteReplicas ==
    /\ classes[kind].replicated
    /\ \E c \in Counts : CallerWrites(set_replicas(obj, c))

WriteParallelism ==
    /\ kind = "Job"
    /\ \E c \in Counts : CallerWrites(SetItem(obj, "spec", "parallelism", c))

\* The patch a request carries, and what a server that honours it holds
\* afterwards when it held `base`.
Patched(base, call) == apply_patch(base, call.kw["data"]["patch"])

\* ------------------------------------------------------ one-request calls
\* A whole call of an operation that issues a single request.
Completes(o, r, operation) ==
    /\ Becomes(o.self)
    /\ calls' = <<o.call>>
    /\ response' = r
    /\ result' = o.result
    /\ op' = operation
    /\ entry' = Self
    /\ pc' = "ended"
    /\ baseline' = Installs(operation.name \in {"create", "reload", "update"}, r)
    /\ UNCHANGED <<kind, scale_value>>

Exists ==
    /\ pc = "idle"
    /\ \E ensure \in BOOLEAN, r \in Responses({original_obj}) :
          Completes(exists(kind, Self, ensure, r), r,
                    [name |-> "exists", ensure |-> ensure])

Create ==
    /\ pc = "idle"
    /\ \E r \in Responses(ServerViews(obj)) :
          Completes(create(kind, Self, r), r, [name |-> "create"])

Reload ==
    /\ pc = "idle"
    /\ \E r \in Responses(ServerViews(original_obj)) :
          Completes(reload(kind, Self, r), r, [name |-> "reload"])

Update ==
    /\ pc = "idle"
    /\ \E walk \in Walks(original_obj, obj) :
          \E r \in Responses(ServerViews(
                      Patched(original_obj, update(kind, Self, walk, NoResponse).call))) :
             Completes(update(kind, Self, walk, r), r, [name |-> "update"])

Delete ==
    /\ pc = "idle"
    /\ \E r \in Responses({original_obj}) :
          Completes(delete(kind, Self, r), r, [name |-> "delete"])

Execute ==
    /\ pc = "idle"
    /\ "execute" \in classes[kind].methods
    /\ \E command \in Commands, stdin \in Flags, stdout \in Flags,
          stderr \in Flags, tty \in Flags, container \in Containers,
          r \in Responses({original_obj}) :
          Completes(execute(kind, Self, command, stdin, stdout, stderr, tty,
                            container, r), r,
                    [name |-> "execute", command |-> command, stdin |-> stdin,
                     stdout |-> stdout, stderr |-> stderr, tty |-> tty,
                     container |-> container])

\* ------------------------------------------------------------ scale steps
ReloadsDone == Cardinality({i \in 1..Len(calls) : i > 2 /\ calls[i].fn = "get"})

\* scale(arg) is called on a replicated class without a scale method.
ScaleUndefined ==
    /\ pc = "idle"
    /\ classes[kind].replicated
    /\ "scale" \notin classes[kind].methods
    /\ \E arg \in ScaleArgs :
          /\ op' = [name |-> "scale", arg |-> arg]
          /\ result' = "AttributeError"
          /\ calls' = <<>>
          /\ response' = NoResponse
          /\ entry' = Self
          /\ pc' = "ended"
          /\ UNCHANGED <<kind, obj, original_obj, shared, scale_value, baseline>>

\* A step of the scale() in progress.
ScaleStep(st, r, isReplacing) ==
    /\ calls' = Append(calls, st.call)
    /\ response' = r
    /\ Becomes(st.self)
    /\ result' = st.result
    /\ pc' = st.next
    /\ baseline' = Installs(isReplacing, r)

ScaleCall ==
    /\ pc = "idle"
    /\ "scale" \in classes[kind].methods
    /\ \E arg \in ScaleArgs, r \in Responses({original_obj}) :
          /\ ScaleStep(scale_enter(kind, Self, arg, r), r, FALSE)
          /\ op' = [name |-> "scale", arg |-> arg]
          /\ entry' = Self
          /\ scale_value' = scale_target(kind, Self, arg)
          /\ UNCHANGED kind

ScaleUpdate ==
    /\ pc = "scale_update"
    /\ \E walk \in Walks(original_obj, obj) :
          \E r \in Responses(ServerViews(
                      Patched(original_obj, update(kind, Self, walk, NoResponse).call))) :
             /\ ScaleStep(scale_update(kind, Self, walk, r), r, TRUE)
             /\ UNCHANGED <<kind, scale_value, op, entry>>

ScaleReload ==
    /\ pc = "scale_reload"
    /\ ReloadsDone < MaxReloads
    /\ \E r \in Responses(ServerViews(original_obj)) :
          /\ ScaleStep(scale_reload(kind, Self, scale_value, r), r, TRUE)
          /\ UNCHANGED <<kind, scale_value, op, entry>>

ScaleSleep ==
    /\ pc = "scale_sleep"
    /\ calls' = Append(calls, scale_sleep)
    /\ pc' = "scale_reload"
    /\ UNCHANGED <<kind, obj, original_obj, shared, scale_value, response,
                   result, op, entry, baseline>>

Next ==
    \/ CallerProceeds
    \/ WriteName \/ WriteNamespace \/ DeleteNamespace
    \/ WriteReplicas \/ WriteParallelism \/ SetObj
    \/ Exists \/ Create \/ Reload \/ Update \/ Delete \/ Execute
    \/ ScaleUndefined \/ ScaleCall \/ ScaleUpdate \/ ScaleReload \/ ScaleSleep

Spec == Init /\ [][Next]_vars

TypeOK ==
    /\ kind \in ModelledKinds
    /\ pc \in {"idle", "ended", "scale_update", "scale_reload", "scale_sleep"}
    /\ shared \in BOOLEAN

\* ------------------------------------------------------------ properties
SingularOps == {"exists", "reload", "update", "delete", "execute"}

SingularPath(k, nm) == <<classes[k].endpoint, nm>>

\* C1: every operation that addresses the singular target (exists, reload,
\* update, delete, execute) puts into the request target the name held in
\* the snapshot when it was called, whatever name the document holds.
C1_TargetNameFromSnapshot ==
    (pc = "ended" /\ op.name \in SingularOps) =>
        /\ Len(calls) = 1
        /\ SubSeq(calls[1].kw["url"].path, 1, 2)
              = SingularPath(kind, entry.original_obj["metadata"]["name"])

C1_Witness ==
    /\ pc = "ended" /\ op.name = "update"
    /\ entry.obj["metadata"]["name"] # entry.original_obj["metadata"]["name"]
    /\ calls[1].fn = "patch"
    /\ calls[1].kw["url"].path[2] = entry.original_obj["metadata"]["name"]

\* C2: when create, reload or update ends with a transport error, the
\* document and the snapshot are what they were before the call; they
\* change only when the call succeeds.
C2_FailureLeavesInstance ==
    (pc = "ended" /\ op.name \in {"create", "reload", "update"}) =>
        /\ result \in {"None", "HTTPError"}
        /\ result = "HTTPError" =>
              (obj = entry.obj /\ original_obj = entry.original_obj)
        /\ (obj # entry.obj \/ original_obj # entry.original_obj) =>
              (result = "None" /\ response.status_code < 400)

C2_Witness ==
    /\ pc = "ended" /\ op.name = "update" /\ result = "HTTPError"
    /\ response.status_code = 500
    /\ entry.obj # entry.original_obj
    /\ obj = entry.obj /\ original_obj = entry.original_obj

Last(q) == q[Len(q)]

\* The patch is a diff from src to dst: the sequence make_patch gives for
\* one of the orders in which the sets can be walked.
SamePatch(p, q) ==
    /\ Len(p) = Len(q)
    /\ \A i \in 1..Len(p) :
          /\ p[i].op = q[i].op
          /\ p[i].path = q[i].path
          /\ p[i].op # "remove" => p[i].value = q[i].value

IsDiff(patch, src, dst) ==
    \E walk \in Walks(src, dst) : SamePatch(patch, make_patch(src, dst, walk))

\* C3: document equals snapshot right after construction and right after
\* every successful create, reload or update, both then being the response
\* body; the snapshot changes in no other step, in particular in none of
\* the caller's steps, and only ever to a whole response body.
C3_SnapshotDiscipline ==
    /\ obj = original_obj
    /\ [](( /\ pc = "ended"
            /\ op.name \in {"create", "reload", "update"}
            /\ result = "None" )
          => (obj = response.body /\ original_obj = response.body))
    /\ [][ /\ (pc = "idle" /\ pc' = "idle") => original_obj' = original_obj
           /\ original_obj' # original_obj =>
                 /\ Last(calls').fn \in {"post", "get", "patch"}
                 /\ response'.status_code < 400
                 /\ original_obj' = response'.body
                 /\ obj' = response'.body ]_vars

\* C3 as amended: document equals snapshot right after construction, right
\* after every successful create, reload or update (both then being the
\* response body) and right after a call of set_obj by the caller (both
\* then being the document given); the snapshot changes in no other step,
\* in particular in none of the caller's writes into the document, and
\* only ever as a whole.
C3_SnapshotReplacedWhole ==
    /\ obj = original_obj
    /\ [](( /\ pc = "ended"
            /\ op.name \in {"create", "reload", "update"}
            /\ result = "None" )
          => (obj = response.body /\ original_obj = response.body))
    /\ [][ original_obj' # original_obj =>
              /\ obj' = original_obj'
              /\ original_obj' = baseline'
              /\ \/ /\ pc = "idle" /\ pc' = "idle"
                    /\ calls' = calls
                 \/ /\ calls' # calls
                    /\ Last(calls').fn \in {"post", "get", "patch"}
                    /\ response'.status_code < 400
                    /\ original_obj' = response'.body ]_vars
    /\ [][ (pc = "idle" /\ pc' = "idle" /\ baseline' = baseline)
           => original_obj' = original_obj ]_vars

C3_Witness ==
    /\ pc = "ended" /\ op.name = "reload" /\ result = "None"
    /\ entry.obj # entry.original_obj
    /\ obj = response.body /\ original_obj = response.body
    /\ obj # entry.obj

\* A step that sends a patch: update() called directly or from scale().
SendsPatch ==
    /\ pc \in {"idle", "scale_update"}
    /\ calls' # calls
    /\ Len(calls') > 0
    /\ Last(calls').fn = "patch"

\* C4: the patch sent by update() -- called directly or from scale() -- is
\* the diff from the snapshot to the document at that moment, empty when
\* the two are equal, and that snapshot is the body of the most recent
\* successful create, reload or update, else the constructor's document:
\* it starts as the constructor's document and is replaced only by the
\* body of a create, reload or update that succeeds.
C4_PatchAgainstCurrentSnapshot ==
    /\ [][ SendsPatch =>
              /\ IsDiff(Last(calls').kw["data"]["patch"], original_obj, obj)
              /\ obj = original_obj => Last(calls').kw["data"]["patch"] = <<>> ]_vars
    /\ [][ original_obj' # original_obj =>
              /\ calls' # calls
              /\ Last(calls').fn \in {"post", "get", "patch"}
              /\ response'.status_code < 400
              /\ original_obj' = response'.body ]_vars

\* C4 as amended: the patch sent by update() is the diff, to the document
\* at that moment, from the document last handed to set_obj -- the body of
\* a successful create, reload or update, the constructor's document or
\* the document of a call of set_obj by the caller, whichever came last --
\* and never from an older one; it is empty when the two are equal.
C4_PatchAgainstLastInstalled ==
    [][ SendsPatch =>
           /\ IsDiff(Last(calls').kw["data"]["patch"], baseline, obj)
           /\ obj = baseline => Last(calls').kw["data"]["patch"] = <<>> ]_vars

C4_Witness ==
    /\ pc = "ended" /\ op.name = "update" /\ result = "HTTPError"
    /\ entry.obj # entry.original_obj
    /\ entry.original_obj = baseline
    /\ IsDiff(calls[1].kw["data"]["patch"], baseline, entry.obj)
    /\ Len(calls[1].kw["data"]["patch"]) >= 2

\* C5: round trip.  When the server holds the snapshot D, applies the patch
\* it receives and answers with the result, a successful update() leaves
\* document and snapshot equal to the document M(D) the caller had written.
C5_RoundTrip ==
    ( /\ pc = "ended" /\ op.name = "update" /\ result = "None"
      /\ response.body = Patched(entry.original_obj, calls[1]) )
    => (original_obj = entry.obj /\ obj = entry.obj)

C5_Witness ==
    /\ pc = "ended" /\ op.name = "update" /\ result = "None"
    /\ entry.obj # entry.original_obj
    /\ Len(calls[1].kw["data"]["patch"]) >= 2
    /\ response.body = Patched(entry.original_obj, calls[1])
    /\ original_obj = entry.obj

SingularUrl(k, self) ==
    [path |-> SingularPath(k, self.original_obj["metadata"]["name"]), query |-> <<>>]

\* C6: exists(ensure) issues one GET on the singular target; 200 gives
\* true, 404 gives false without ensure and NotFound with ensure, and every
\* other status is raised as a transport error.
C6_ExistsStatusMapping ==
    (pc = "ended" /\ op.name = "exists") =>
        /\ Len(calls) = 1
        /\ calls[1].fn = "get"
        /\ calls[1].kw["url"] = SingularUrl(kind, entry)
        /\ result = IF response.status_code = 200 THEN "True"
                    ELSE IF response.status_code = 404
                    THEN (IF op.ensure THEN "ObjectDoesNotExist" ELSE "False")
                    ELSE "HTTPError"

\* C7: delete() issues one DELETE on the singular target; 404 and every
\* success status complete without error, every other failure status is
\* raised as a transport error.
C7_DeleteStatusMapping ==
    (pc = "ended" /\ op.name = "delete") =>
        /\ Len(calls) = 1
        /\ calls[1].fn = "delete"
        /\ calls[1].kw["url"] = SingularUrl(kind, entry)
        /\ result = IF response.status_code = 404 THEN "None"
                    ELSE IF response.status_code >= 400 THEN "HTTPError"
                    ELSE "None"

C7_Witness ==
    /\ pc = "ended" /\ op.name = "delete"
    /\ response.status_code = 404
    /\ result = "None"

\* C8: when the existence check of scale() is answered 404, scale() ends
\* there with NotFound: that GET is its only request, and document and
\* snapshot are what they were at the call.
C8_ScaleOnAbsent ==
    [][ ( /\ pc = "idle"
          /\ pc' # "idle"
          /\ op'.name = "scale"
          /\ response'.status_code = 404 )
        => /\ pc' = "ended"
           /\ result' = "ObjectDoesNotExist"
           /\ Len(calls') = 1
           /\ calls'[1].fn = "get"
           /\ obj' = obj
           /\ original_obj' = original_obj ]_vars

C8_Witness ==
    /\ pc = "ended" /\ op.name = "scale" /\ kind = "ReplicationController"
    /\ response.status_code = 404
    /\ result = "ObjectDoesNotExist"
    /\ op.arg # NoneArg
    /\ op.arg[1] # replicas(entry.obj)
    /\ obj = entry.obj /\ original_obj = entry.original_obj
    /\ Len(calls) = 1

Count(q, fn) == Cardinality({i \in 1..Len(q) : q[i].fn = fn})

ScaleTarget == IF op.arg = NoneArg THEN replicas(entry.obj) ELSE op.arg[1]

\* C9: ReplicationController.scale issues the existence GET, then the PATCH
\* that sets the count to the target, then reloads alternating with
\* sleeps; a sleep follows exactly the reloads whose body does not report
\* the target, and scale returns at the first reload that does, after k
\* reloads and k-1 sleeps, the document then holding the target.  The
\* target is the argument, or the document's count at the call when the
\* argument is omitted.
C9_ScaleOrder ==
    (kind = "ReplicationController" /\ op.name = "scale") =>
        LET n == Len(calls)
        IN  /\ n >= 1
            /\ scale_value = ScaleTarget
            /\ calls[1].fn = "get"
            /\ n >= 2 =>
                  /\ calls[2].fn = "patch"
                  /\ IsDiff(calls[2].kw["data"]["patch"], entry.original_obj,
                            set_replicas(entry.obj, ScaleTarget))
                  /\ replicas(Patched(entry.original_obj, calls[2])) = ScaleTarget
            /\ \A i \in 3..n : calls[i].fn = IF i % 2 = 1 THEN "get" ELSE "sleep"
            /\ pc = "scale_update" => n = 1
            /\ pc = "scale_sleep" =>
                  (n >= 3 /\ Last(calls).fn = "get" /\ replicas(obj) # ScaleTarget)
            /\ pc = "scale_reload" =>
                  \/ n = 2
                  \/ (Last(calls).fn = "sleep" /\ replicas(obj) # ScaleTarget)
            /\ (pc = "ended" /\ result = "None") =>
                  /\ n >= 3
                  /\ Last(calls).fn = "get"
                  /\ replicas(response.body) = ScaleTarget
                  /\ replicas(obj) = ScaleTarget
                  /\ Count(calls, "get") >= 2
                  /\ Count(calls, "sleep") = Count(calls, "get") - 2

C9_Witness ==
    /\ kind = "ReplicationController" /\ op.name = "scale"
    /\ pc = "ended" /\ result = "None"
    /\ op.arg = <<2>>
    /\ replicas(entry.obj) = 1
    /\ Count(calls, "get") = 3
    /\ Count(calls, "sleep") = 1
    /\ replicas(obj) = 2

\* C10: a Deployment supports scale: unless a request fails, scale on a
\* Deployment returns at the first reload that reports the target, the
\* document then holding the target.
C10_DeploymentScales ==
    ( /\ kind = "Deployment" /\ op.name = "scale" /\ pc = "ended"
      /\ result \notin {"HTTPError", "ObjectDoesNotExist"} )
    => /\ result = "None"
       /\ Len(calls) >= 3
       /\ Last(calls).fn = "get"
       /\ replicas(obj) = ScaleTarget

JobScaleTarget ==
    IF op.arg = NoneArg THEN entry.obj["spec"]["parallelism"] ELSE op.arg[1]

\* C11: unless a request fails, Job.scale returns normally, at a reload
\* whose body reports spec.parallelism equal to the target; the patch it
\* sent sets spec.parallelism and the completions count is the reloaded one.
C11_JobScaleReturns ==
    ( /\ kind = "Job" /\ op.name = "scale" /\ pc = "ended"
      /\ result \notin {"HTTPError", "ObjectDoesNotExist"} )
    => /\ result = "None"
       /\ Len(calls) >= 3
       /\ Last(calls).fn = "get"
       /\ Patched(entry.original_obj, calls[2])["spec"]["parallelism"] = JobScaleTarget
       /\ Patched(entry.original_obj, calls[2])["spec"]["completions"]
             = entry.obj["spec"]["completions"]
       /\ response.body["spec"]["parallelism"] = JobScaleTarget
       /\ obj = response.body

\* C12: in scale(), a reload answered with success whose body does not
\* report the target is followed by a sleep and another reload: scale
\* neither returns nor fails there; and scale returns normally only in a
\* step whose reload reported the target.
ReportedCount(k, body) ==
    IF k = "Job" THEN body["spec"]["parallelism"] ELSE body["spec"]["replicas"]

C12_ScaleUnbounded ==
    [][ pc = "scale_reload" =>
          /\ ( /\ response'.status_code < 400
               /\ ReportedCount(kind, response'.body) # scale_value )
             => (pc' = "scale_sleep" /\ result' = "running")
          /\ ( /\ response'.status_code < 400
               /\ ReportedCount(kind, response'.body) = scale_value )
             => (pc' = "ended" /\ result' = "None")
          /\ (pc' = "ended" /\ result' = "None")
             => ReportedCount(kind, response'.body) = scale_value ]_vars

\* C13: for a namespaced class, the namespace of the request target of
\* exists, reload, update, delete and execute is the namespace of the
\* snapshot, whatever the document's metadata.namespace has become.
C13_TargetNamespaceFromSnapshot ==
    (pc = "ended" /\ op.name \in SingularOps /\ classes[kind].namespaced) =>
        calls[1].kw["namespace"] = namespace_of_namespaced(entry.original_obj)

\* C14: update() issues exactly one request, a PATCH on the singular target
\* with content type application/json-patch+json carrying the diff, also
\* when the diff is empty.
C14_UpdateAlwaysPatches ==
    (pc = "ended" /\ op.name = "update") =>
        /\ Len(calls) = 1
        /\ calls[1].fn = "patch"
        /\ calls[1].kw["url"] = SingularUrl(kind, entry)
        /\ calls[1].kw["headers"] = [ContentType |-> "application/json-patch+json"]
        /\ DOMAIN calls[1].kw["data"] = {"patch"}
        /\ IsDiff(calls[1].kw["data"]["patch"], entry.original_obj, entry.obj)
        /\ entry.obj = entry.original_obj => calls[1].kw["data"]["patch"] = <<>>

C14_Witness ==
    /\ pc = "ended" /\ op.name = "update"
    /\ entry.obj = entry.original_obj
    /\ Len(calls) = 1
    /\ calls[1].fn = "patch"
    /\ calls[1].kw["data"]["patch"] = <<>>

\* The namespace a namespaced instance reports for the document o, as the
\* requests show it.
ReportedNamespace == calls[1].kw["namespace"]

NamespaceObserved ==
    /\ pc = "ended" /\ classes[kind].namespaced
    /\ op.name \in SingularOps \cup {"create"}

\* C15 as stated: the namespace accessor gives metadata.namespace whenever
\* the key is present, and "default" when it is not.
C15_NamespaceWhenPresent ==
    NamespaceObserved =>
        ReportedNamespace = IF Has(entry.obj, "metadata", "namespace")
                            THEN entry.obj["metadata"]["namespace"]
                            ELSE "default"

\* C15 amended: the namespace accessor gives metadata.namespace when the
\* key is present with a non-empty value, and "default" when the key is
\* absent or its value is empty; it never gives an empty value.
C15_NamespaceDefault ==
    /\ classes[kind].namespaced =>
          /\ namespace_of_namespaced(obj) # ""
          /\ namespace_of_namespaced(obj) \in {"default"} \cup (Namespaces \ {""})
    /\ NamespaceObserved =>
          /\ ReportedNamespace # ""
          /\ ReportedNamespace
                = IF /\ Has(entry.obj, "metadata", "namespace")
                     /\ entry.obj["metadata"]["namespace"] # ""
                  THEN entry.obj["metadata"]["namespace"]
                  ELSE "default"

C15_Witness ==
    /\ NamespaceObserved
    /\ ~Has(entry.obj, "metadata", "namespace")
    /\ ReportedNamespace = "default"

\* The calls that are requests to the api (time.sleep is not).
Requests == {"get", "post", "patch", "delete"}

\* C16: fail-stop.  A request answered with a failure status ends the
\* operation at once: it is the last call of the operation, no sleep or
\* request follows it, and the operation ends with an exception unless it
\* is the 404 that delete and exists(ensure unset) accept.  In scale this
\* holds for the existence check, the PATCH and every reload.
C16_FailStop ==
    /\ [][ (calls' # calls /\ calls' # <<>> /\ Last(calls').fn \in Requests
            /\ response'.status_code >= 400)
          => /\ pc' = "ended"
             /\ \/ result' \in {"HTTPError", "ObjectDoesNotExist"}
                \/ /\ response'.status_code = 404
                   /\ op'.name \in {"delete", "exists"}
                   /\ result' \in {"None", "False"}
             /\ op'.name = "scale" =>
                   result' = IF Len(calls') = 1 /\ response'.status_code = 404
                             THEN "ObjectDoesNotExist" ELSE "HTTPError" ]_vars
    /\ [][ pc = "ended" => calls' = <<>> ]_vars
    /\ [](result = "HTTPError" =>
            /\ pc = "ended"
            /\ Last(calls).fn \in Requests
            /\ response.status_code >= 400)

C16_Witness ==
    /\ op.name = "scale" /\ pc = "ended" /\ result = "HTTPError"
    /\ Len(calls) = 5
    /\ calls[4].fn = "sleep"
    /\ calls[5].fn = "get"
    /\ response.status_code = 500

\* C17: exists, delete and execute leave the document and the snapshot as
\* they were at the call, whatever the status of the response; the
\* singular target they addressed is the one a later operation addresses.
C17_ReadOnlyOperations ==
    (pc = "ended" /\ op.name \in {"exists", "delete", "execute"}) =>
        /\ obj = entry.obj
        /\ original_obj = entry.original_obj
        /\ SubSeq(calls[1].kw["url"].path, 1, 2)
              = api_kwargs(kind, Self, NoArgs)["url"].path

C17_Witness ==
    /\ pc = "ended" /\ op.name = "delete"
    /\ response.status_code = 200 /\ result = "None"
    /\ entry.obj # entry.original_obj
    /\ obj = entry.obj /\ original_obj = entry.original_obj

\* C18: create addresses the collection target, every other request the
\* singular target; a class that is not namespaced never sends a
\* namespace, whatever metadata.namespace the document carries.
C18_TargetByMode ==
    \A i \in 1..Len(calls) :
        calls[i].fn \in Requests =>
            /\ calls[i].kw["url"].path[1] = classes[kind].endpoint
            /\ Len(calls[i].kw["url"].path)
                  = IF calls[i].fn = "post" THEN 1
                    ELSE IF op.name = "execute" THEN 3 ELSE 2
            /\ calls[i].fn = "post" <=> op.name = "create"
            /\ (i = 1 /\ calls[i].fn # "post") =>
                  calls[i].kw["url"].path[2] = entry.original_obj["metadata"]["name"]
            /\ "namespace" \in DOMAIN calls[i].kw <=> classes[kind].namespaced

C18_Witness ==
    /\ kind = "Node" /\ pc = "ended" /\ op.name = "create"
    /\ Has(entry.obj, "metadata", "namespace")
    /\ calls[1].kw["url"].path = <<"nodes">>
    /\ "namespace" \notin DOMAIN calls[1].kw

ExpectedFlag(key, v) ==
    IF v = PyNone THEN <<>>
    ELSE << <<key, IF v = PyTrue THEN "true" ELSE "false">> >>

\* C19: execute() issues a single GET on the exec sub-resource of the
\* singular target, without a patch; its query holds the command, each of
\* stdin, stdout, stderr and tty that was supplied as "true" or "false",
\* none of those omitted, and the container when supplied.
C19_ExecuteQuery ==
    (pc = "ended" /\ op.name = "execute") =>
        /\ Len(calls) = 1
        /\ calls[1].fn = "get"
        /\ calls[1].kw["url"].path
              = <<"pods", entry.original_obj["metadata"]["name"], "exec">>
        /\ "data" \notin DOMAIN calls[1].kw
        /\ calls[1].kw["url"].query
              = << <<"command", op.command.repr>> >>
                \o ExpectedFlag("stdin", op.stdin)
                \o ExpectedFlag("stdout", op.stdout)
                \o ExpectedFlag("stderr", op.stderr)
                \o ExpectedFlag("tty", op.tty)
                \o (IF op.container = PyNone THEN <<>>
                    ELSE << <<"container", op.container.repr>> >>)

ScalarKey(k) == IF k = "Job" THEN "parallelism" ELSE "replicas"

\* C20: the PATCH of scale() is the diff from the snapshot to the whole
\* document with the count set to the target, so it carries every write
\* the caller had not sent; the target is fixed at the call; each
\* successful reload replaces document and snapshot by its body, and
\* ReplicationController.scale ends normally exactly when that body
\* reports the target fixed at the call.
C20_ScaleFlushesDocument ==
    /\ []( ( /\ op.name = "scale" /\ "scale" \in classes[kind].methods
             /\ pc # "idle" )
           => /\ scale_value = IF op.arg = NoneArg
                               THEN entry.obj["spec"][ScalarKey(kind)]
                               ELSE op.arg[1]
              /\ Len(calls) >= 2 =>
                    /\ IsDiff(calls[2].kw["data"]["patch"], entry.original_obj,
                              SetItem(entry.obj, "spec", ScalarKey(kind), scale_value))
                    /\ Patched(entry.original_obj, calls[2])
                          = SetItem(entry.obj, "spec", ScalarKey(kind), scale_value) )
    /\ [][ (pc = "scale_reload" /\ response'.status_code < 400)
           => /\ obj' = response'.body
              /\ original_obj' = response'.body
              /\ scale_value' = scale_value
              /\ kind = "ReplicationController" =>
                    ( (pc' = "ended" /\ result' = "None")
                      <=> replicas(response'.body) = scale_value ) ]_vars

C20_Witness ==
    /\ kind = "ReplicationController" /\ op.name = "scale"
    /\ pc = "scale_sleep"
    /\ op.arg # NoneArg
    /\ entry.obj["metadata"]["name"] # entry.original_obj["metadata"]["name"]
    /\ \E i \in 1..Len(calls[2].kw["data"]["patch"]) :
          calls[2].kw["data"]["patch"][i].path = "/metadata/name"
    /\ replicas(obj) # scale_value
    /\ replicas(obj) = replicas(response.body)

====
